---- MODULE Spec2Model ----
(***************************************************************************)
(* The reader-writer lock of sgx_tstd/src/sys/locks/rwlock.rs.             *)
(*                                                                         *)
(* RwLockInner is a monitor built by hand: the fields reader_count,        *)
(* writer_waiting, owner, reader_queue and writer_queue are guarded by a   *)
(* spin lock (lock), and a thread that cannot proceed releases the spin    *)
(* lock and parks in mutex::thread_wait_event until another thread sets    *)
(* its event.  Every thread may call every operation at any time; each     *)
(* operation is cut into steps at the points where it takes the spin lock  *)
(* and where it parks, so that steps of different threads interleave as    *)
(* they do in the code.                                                    *)
(***************************************************************************)
EXTENDS Integers, Sequences, FiniteSets, TLC

\* Number of threads that use the lock.
NumThreads == 3
\* Cap on reader_count (a u32 in the code): no shared acquisition is started
\* once reader_count plus the queued readers reach it.
MaxReaderCount == 2
\* Number of acquire calls (read, try_read, write, try_write) each thread of the
\* well-behaved clients makes.
MaxCalls == 2

Threads == 1..NumThreads

\* sgx_types::SGX_THREAD_T_NULL, the handle that names no thread.
SGX_THREAD_T_NULL == 0

\* SysError values.
Ok == "Ok"
EDEADLK == "EDEADLK"
EBUSY == "EBUSY"
EPERM == "EPERM"

VARIABLES
    reader_count,    \* RwLockInner.reader_count
    writer_waiting,  \* RwLockInner.writer_waiting
    lock,            \* RwLockInner.lock: the thread holding the spin lock, or SGX_THREAD_T_NULL
    owner,           \* RwLockInner.owner
    reader_queue,    \* RwLockInner.reader_queue
    writer_queue,    \* RwLockInner.writer_queue
    pc,              \* pc[t]: where thread t is in the operation it is running
    event,           \* event[t]: a wake of thread t is pending (the event of its TCS is set)
    waiter,          \* waiter[t]: the local `waiter` of read_unlock / write_unlock (front of writer_queue)
    tcs_vec,         \* tcs_vec[t]: the local `tcs_vec` of write_unlock
    dangling,        \* dangling[t]: the node `waiter` of thread t refers to has been removed from writer_queue
    ret,             \* what the step just taken returned to its caller: operation and result
    owed,            \* history: the readers queued at the latest exclusive release that found
                     \* no writer queued, less those that have acquired since
    fifo,            \* history: <<H, W1, W2>> in a run in which H alone holds shared access, W1
                     \* and then W2 call write and are queued, and H releases (see FifoNext)
    rcalls,          \* history: the read calls that succeeded since the lock was last free, or -1
                     \* once anything but read calls has changed who holds the lock
    hold,            \* hold[t]: the access ("read", "write", "none") a well-behaved client thread
                     \* has acquired and not yet started to release
    budget,          \* budget[t]: the acquire calls a well-behaved client thread has yet to make
    life             \* the Box<RwLock> of the LazyBox: "Live", then torn down by
                     \* LazyInit::destroy: "Leaked" (mem::forget), or "Dropping" (Drop::drop
                     \* runs) and then "Destroyed", or "AssertFailed" if the debug assertion
                     \* of Drop::drop fails

state == <<reader_count, writer_waiting, owner, reader_queue, writer_queue>>
vars == <<reader_count, writer_waiting, lock, owner, reader_queue, writer_queue,
          pc, event, waiter, tcs_vec, dangling, ret, owed, fifo, rcalls, hold, budget, life>>

Range(q) == {q[i] : i \in 1..Len(q)}

\* Iterator::position: the index of the first element equal to t, 0 for None.
Position(q, t) ==
    IF t \in Range(q) THEN CHOOSE i \in 1..Len(q) : q[i] = t /\ \A j \in 1..(i - 1) : q[j] # t
    ELSE 0

\* LinkedList::remove(pos) of the element found by position, if any.
RemoveWaiter(q, t) ==
    LET pos == Position(q, t)
    IN  IF pos = 0 THEN q
        ELSE SubSeq(q, 1, pos - 1) \o SubSeq(q, pos + 1, Len(q))

\* LinkedList::front: the head of the queue, SGX_THREAD_T_NULL for None.
Front(q) == IF q = <<>> THEN SGX_THREAD_T_NULL ELSE Head(q)

\* The result an operation returns to its caller.
Return(op, res) == [op |-> op, res |-> res]

\* The value of ret after a step that returns from no operation.
NoReturn == Return("none", "none")

\* mutex::thread_set_event / thread_set_multiple_events: every target's event becomes set.
SetEvents(targets) == [u \in Threads |-> event[u] \/ u \in targets]

\* Faulty variant of IsLocked: the two queues are not looked at.
IsLocked_IgnoringQueues ==
    \/ owner # SGX_THREAD_T_NULL
    \/ reader_count # 0
    \/ writer_waiting # 0

\* RwLockInner::is_locked, evaluated under the spin lock.
IsLocked ==
    \/ owner # SGX_THREAD_T_NULL
    \/ reader_count # 0
    \/ writer_waiting # 0
    \/ reader_queue # <<>>
    \/ writer_queue # <<>>

\* Room for one more shared hold below the cap.
ReaderRoom == reader_count + Len(reader_queue) < MaxReaderCount

Init ==
    /\ reader_count = 0
    /\ writer_waiting = 0
    /\ lock = SGX_THREAD_T_NULL
    /\ owner = SGX_THREAD_T_NULL
    /\ reader_queue = <<>>
    /\ writer_queue = <<>>
    /\ pc = [t \in Threads |-> "idle"]
    /\ event = [t \in Threads |-> FALSE]
    /\ waiter = [t \in Threads |-> SGX_THREAD_T_NULL]
    /\ tcs_vec = [t \in Threads |-> <<>>]
    /\ dangling = [t \in Threads |-> FALSE]
    /\ ret = NoReturn
    /\ owed = {}
    /\ fifo = <<>>
    /\ rcalls = 0
    /\ hold = [t \in Threads |-> "none"]
    /\ budget = [t \in Threads |-> MaxCalls]
    /\ life = "Live"

\* self.lock.lock() at the start of an operation that an idle thread calls on a lock that
\* has not been torn down.
Enter(t, label) ==
    /\ life = "Live"
    /\ pc[t] = "idle"
    /\ lock = SGX_THREAD_T_NULL
    /\ lock' = t
    /\ pc' = [pc EXCEPT ![t] = label]
    /\ ret' = NoReturn
    /\ UNCHANGED <<state, event, waiter, tcs_vec, dangling>>

\* self.lock.unlock() followed by the return of `res` from operation `op`.
Leave(t, op, res) ==
    /\ lock' = SGX_THREAD_T_NULL
    /\ pc' = [pc EXCEPT ![t] = "idle"]
    /\ ret' = Return(op, res)

\* Faulty variant of Unlock: the spin lock is kept while the thread goes on to park or wake.
Unlock_KeepingLock(t, label) ==
    /\ lock' = lock
    /\ pc' = [pc EXCEPT ![t] = label]
    /\ ret' = NoReturn

\* self.lock.unlock() on a path that does not return yet: t goes on at `label`, which is
\* either mutex::thread_wait_event (read_park, write_park) or the wake that an unlock
\* issues after having released the spin lock (read_unlock_wake, write_unlock_wake).
Unlock(t, label) ==
    /\ lock' = SGX_THREAD_T_NULL
    /\ pc' = [pc EXCEPT ![t] = label]
    /\ ret' = NoReturn

\* thread_wait_event returns because the event of t is set, consuming it; then self.lock.lock().
Wake(t, parked, label) ==
    /\ pc[t] = parked
    /\ event[t]
    /\ lock = SGX_THREAD_T_NULL
    /\ event' = [event EXCEPT ![t] = FALSE]
    /\ lock' = t
    /\ pc' = [pc EXCEPT ![t] = label]
    /\ ret' = NoReturn

\* The threads whose `waiter` reference is invalidated when the node of t leaves writer_queue.
Invalidate(t) ==
    [u \in Threads |->
        dangling[u] \/ (pc[u] \in {"read_unlock_wake", "write_unlock_wake"} /\ waiter[u] = t)]

----------------------------------------------------------------------------
\* read

ReadCall(t) ==
    /\ ReaderRoom
    /\ Enter(t, "read_locked")

\* Faulty variant of ReadCS: no test for the caller being the owner.
ReadCS_NoSelfCheck(t) ==
    /\ pc[t] = "read_locked"
    /\ lock = t
    /\ IF owner = SGX_THREAD_T_NULL
       THEN /\ reader_count' = reader_count + 1
            /\ Leave(t, "read", Ok)
            /\ UNCHANGED reader_queue
       ELSE /\ reader_queue' = Append(reader_queue, t)
            /\ Unlock(t, "read_park")
            /\ UNCHANGED reader_count
    /\ UNCHANGED <<writer_waiting, owner, writer_queue, event, waiter, tcs_vec, dangling>>

\* Faulty variant of ReadCS: a reader that finds a writer queued waits behind it.
ReadCS_WriterPreferring(t) ==
    /\ pc[t] = "read_locked"
    /\ lock = t
    /\ IF owner = SGX_THREAD_T_NULL /\ writer_queue = <<>>
       THEN /\ reader_count' = reader_count + 1
            /\ Leave(t, "read", Ok)
            /\ UNCHANGED reader_queue
       ELSE IF owner = t
       THEN /\ Leave(t, "read", EDEADLK)
            /\ UNCHANGED <<reader_count, reader_queue>>
       ELSE /\ reader_queue' = Append(reader_queue, t)
            /\ Unlock(t, "read_park")
            /\ UNCHANGED reader_count
    /\ UNCHANGED <<writer_waiting, owner, writer_queue, event, waiter, tcs_vec, dangling>>

\* Faulty variant of ReadCS: `reader_count = 1` for `reader_count += 1`.
ReadCS_CountSetToOne(t) ==
    /\ pc[t] = "read_locked"
    /\ lock = t
    /\ IF owner = SGX_THREAD_T_NULL
       THEN /\ reader_count' = 1
            /\ Leave(t, "read", Ok)
            /\ UNCHANGED reader_queue
       ELSE IF owner = t
       THEN /\ Leave(t, "read", EDEADLK)
            /\ UNCHANGED <<reader_count, reader_queue>>
       ELSE /\ reader_queue' = Append(reader_queue, t)
            /\ Unlock(t, "read_park")
            /\ UNCHANGED reader_count
    /\ UNCHANGED <<writer_waiting, owner, writer_queue, event, waiter, tcs_vec, dangling>>

ReadCS(t) ==
    /\ pc[t] = "read_locked"
    /\ lock = t
    /\ IF owner = SGX_THREAD_T_NULL
       THEN /\ reader_count' = reader_count + 1
            /\ Leave(t, "read", Ok)
            /\ UNCHANGED reader_queue
       ELSE IF owner = t
       THEN /\ Leave(t, "read", EDEADLK)
            /\ UNCHANGED <<reader_count, reader_queue>>
       ELSE /\ reader_queue' = Append(reader_queue, t)
            /\ Unlock(t, "read_park")
            /\ UNCHANGED reader_count
    /\ UNCHANGED <<writer_waiting, owner, writer_queue, event, waiter, tcs_vec, dangling>>

ReadWake(t) ==
    /\ Wake(t, "read_park", "read_recheck")
    /\ UNCHANGED <<state, waiter, tcs_vec, dangling>>

\* Faulty variant of ReadRecheck: a woken reader takes the wake as a grant and does not
\* test owner again.
ReadRecheck_NoRevalidation(t) ==
    /\ pc[t] = "read_recheck"
    /\ lock = t
    /\ reader_count' = reader_count + 1
    /\ reader_queue' = RemoveWaiter(reader_queue, t)
    /\ Leave(t, "read", Ok)
    /\ UNCHANGED <<writer_waiting, owner, writer_queue, event, waiter, tcs_vec, dangling>>

ReadRecheck(t) ==
    /\ pc[t] = "read_recheck"
    /\ lock = t
    /\ IF owner = SGX_THREAD_T_NULL
       THEN /\ reader_count' = reader_count + 1
            /\ reader_queue' = RemoveWaiter(reader_queue, t)
            /\ Leave(t, "read", Ok)
       ELSE /\ Unlock(t, "read_park")
            /\ UNCHANGED <<reader_count, reader_queue>>
    /\ UNCHANGED <<writer_waiting, owner, writer_queue, event, waiter, tcs_vec, dangling>>

----------------------------------------------------------------------------
\* try_read

TryReadCall(t) ==
    /\ ReaderRoom
    /\ Enter(t, "try_read_locked")

TryReadCS(t) ==
    /\ pc[t] = "try_read_locked"
    /\ lock = t
    /\ ReaderRoom
    /\ IF owner = SGX_THREAD_T_NULL
       THEN /\ reader_count' = reader_count + 1
            /\ Leave(t, "try_read", Ok)
       ELSE /\ Leave(t, "try_read", EBUSY)
            /\ UNCHANGED reader_count
    /\ UNCHANGED <<writer_waiting, owner, reader_queue, writer_queue, event, waiter,
                   tcs_vec, dangling>>

----------------------------------------------------------------------------
\* write

WriteCall(t) ==
    /\ Enter(t, "write_locked")

\* Faulty variant of WriteCS: a writer that queues itself counts itself in writer_waiting.
WriteCS_CountingWaiters(t) ==
    /\ pc[t] = "write_locked"
    /\ lock = t
    /\ IF owner = SGX_THREAD_T_NULL /\ reader_count = 0
       THEN /\ owner' = t
            /\ Leave(t, "write", Ok)
            /\ UNCHANGED <<writer_queue, writer_waiting>>
       ELSE IF owner = t
       THEN /\ Leave(t, "write", EDEADLK)
            /\ UNCHANGED <<owner, writer_queue, writer_waiting>>
       ELSE /\ writer_queue' = Append(writer_queue, t)
            /\ writer_waiting' = writer_waiting + 1
            /\ Unlock(t, "write_park")
            /\ UNCHANGED owner
    /\ UNCHANGED <<reader_count, reader_queue, event, waiter, tcs_vec, dangling>>

WriteCS(t) ==
    /\ pc[t] = "write_locked"
    /\ lock = t
    /\ IF owner = SGX_THREAD_T_NULL /\ reader_count = 0
       THEN /\ owner' = t
            /\ Leave(t, "write", Ok)
            /\ UNCHANGED writer_queue
       ELSE IF owner = t
       THEN /\ Leave(t, "write", EDEADLK)
            /\ UNCHANGED <<owner, writer_queue>>
       ELSE /\ writer_queue' = Append(writer_queue, t)
            /\ Unlock(t, "write_park")
            /\ UNCHANGED owner
    /\ UNCHANGED <<reader_count, writer_waiting, reader_queue, event, waiter, tcs_vec,
                   dangling>>

WriteWake(t) ==
    /\ Wake(t, "write_park", "write_recheck")
    /\ UNCHANGED <<state, waiter, tcs_vec, dangling>>

\* Faulty variant of WriteRecheck: a woken writer tests owner only, not reader_count.
WriteRecheck_IgnoringReaders(t) ==
    /\ pc[t] = "write_recheck"
    /\ lock = t
    /\ IF owner = SGX_THREAD_T_NULL
       THEN /\ owner' = t
            /\ writer_queue' = RemoveWaiter(writer_queue, t)
            /\ dangling' = Invalidate(t)
            /\ Leave(t, "write", Ok)
       ELSE /\ Unlock(t, "write_park")
            /\ UNCHANGED <<owner, writer_queue, dangling>>
    /\ UNCHANGED <<reader_count, writer_waiting, reader_queue, event, waiter, tcs_vec>>

\* Faulty variant of WriteRecheck: the writer that acquires stays in writer_queue.
WriteRecheck_NotDequeuing(t) ==
    /\ pc[t] = "write_recheck"
    /\ lock = t
    /\ IF owner = SGX_THREAD_T_NULL /\ reader_count = 0
       THEN /\ owner' = t
            /\ Leave(t, "write", Ok)
       ELSE /\ Unlock(t, "write_park")
            /\ UNCHANGED owner
    /\ UNCHANGED <<reader_count, writer_waiting, reader_queue, writer_queue, event, waiter,
                   tcs_vec, dangling>>

WriteRecheck(t) ==
    /\ pc[t] = "write_recheck"
    /\ lock = t
    /\ IF owner = SGX_THREAD_T_NULL /\ reader_count = 0
       THEN /\ owner' = t
            /\ writer_queue' = RemoveWaiter(writer_queue, t)
            /\ dangling' = Invalidate(t)
            /\ Leave(t, "write", Ok)
       ELSE /\ Unlock(t, "write_park")
            /\ UNCHANGED <<owner, writer_queue, dangling>>
    /\ UNCHANGED <<reader_count, writer_waiting, reader_queue, event, waiter, tcs_vec>>

----------------------------------------------------------------------------
\* try_write

TryWriteCall(t) ==
    /\ Enter(t, "try_write_locked")

\* Faulty variant of TryWriteCS: owner is tested, reader_count is not.
TryWriteCS_IgnoringReaders(t) ==
    /\ pc[t] = "try_write_locked"
    /\ lock = t
    /\ IF owner = SGX_THREAD_T_NULL
       THEN /\ owner' = t
            /\ Leave(t, "try_write", Ok)
       ELSE /\ Leave(t, "try_write", EBUSY)
            /\ UNCHANGED owner
    /\ UNCHANGED <<reader_count, writer_waiting, reader_queue, writer_queue, event, waiter,
                   tcs_vec, dangling>>

TryWriteCS(t) ==
    /\ pc[t] = "try_write_locked"
    /\ lock = t
    /\ IF owner = SGX_THREAD_T_NULL /\ reader_count = 0
       THEN /\ owner' = t
            /\ Leave(t, "try_write", Ok)
       ELSE /\ Leave(t, "try_write", EBUSY)
            /\ UNCHANGED owner
    /\ UNCHANGED <<reader_count, writer_waiting, reader_queue, writer_queue, event, waiter,
                   tcs_vec, dangling>>

----------------------------------------------------------------------------
\* read_unlock

\* What `*td` yields when the wake is issued: the handle in the node `waiter` refers to,
\* or, once that node has been removed from writer_queue and freed, any handle at all
\* (SGX_THREAD_T_NULL standing for a value that names no thread).
WakeTargets(t) ==
    IF dangling[t] THEN Threads \cup {SGX_THREAD_T_NULL} ELSE {waiter[t]}

\* if let Some(td) = waiter { thread_set_event(*td) } after the spin lock was released.
WakeOne(t, op) ==
    /\ \E target \in WakeTargets(t) : event' = SetEvents({target} \ {SGX_THREAD_T_NULL})
    /\ waiter' = [waiter EXCEPT ![t] = SGX_THREAD_T_NULL]
    /\ dangling' = [dangling EXCEPT ![t] = FALSE]
    /\ pc' = [pc EXCEPT ![t] = "idle"]
    /\ ret' = Return(op, Ok)

ReadUnlockCall(t) ==
    /\ Enter(t, "read_unlock_locked")

\* Faulty variant of ReadUnlockCS: the last reader to leave wakes nobody.
ReadUnlockCS_NoWake(t) ==
    /\ pc[t] = "read_unlock_locked"
    /\ lock = t
    /\ IF reader_count = 0
       THEN /\ Leave(t, "read_unlock", EPERM)
            /\ UNCHANGED reader_count
       ELSE /\ reader_count' = reader_count - 1
            /\ Leave(t, "read_unlock", Ok)
    /\ UNCHANGED <<writer_waiting, owner, reader_queue, writer_queue, event, waiter, tcs_vec,
                   dangling>>

ReadUnlockCS(t) ==
    /\ pc[t] = "read_unlock_locked"
    /\ lock = t
    /\ IF reader_count = 0
       THEN /\ Leave(t, "read_unlock", EPERM)
            /\ UNCHANGED <<reader_count, waiter>>
       ELSE /\ reader_count' = reader_count - 1
            /\ IF reader_count - 1 = 0 /\ Front(writer_queue) # SGX_THREAD_T_NULL
               THEN /\ waiter' = [waiter EXCEPT ![t] = Front(writer_queue)]
                    /\ Unlock(t, "read_unlock_wake")
               ELSE /\ Leave(t, "read_unlock", Ok)
                    /\ UNCHANGED waiter
    /\ UNCHANGED <<writer_waiting, owner, reader_queue, writer_queue, event, tcs_vec,
                   dangling>>

ReadUnlockWake(t) ==
    /\ pc[t] = "read_unlock_wake"
    /\ WakeOne(t, "read_unlock")
    /\ UNCHANGED <<state, lock, tcs_vec>>

----------------------------------------------------------------------------
\* write_unlock

WriteUnlockCall(t) ==
    /\ Enter(t, "write_unlock_locked")

\* Faulty variant of WriteUnlockCS: no test for the caller being the owner.
WriteUnlockCS_NoOwnerCheck(t) ==
    /\ pc[t] = "write_unlock_locked"
    /\ lock = t
    /\ owner' = SGX_THREAD_T_NULL
    /\ IF reader_queue # <<>>
       THEN /\ tcs_vec' = [tcs_vec EXCEPT ![t] = reader_queue]
            /\ Unlock(t, "write_unlock_wake")
            /\ UNCHANGED waiter
       ELSE IF Front(writer_queue) # SGX_THREAD_T_NULL
       THEN /\ waiter' = [waiter EXCEPT ![t] = Front(writer_queue)]
            /\ Unlock(t, "write_unlock_wake")
            /\ UNCHANGED tcs_vec
       ELSE /\ Leave(t, "write_unlock", Ok)
            /\ UNCHANGED <<waiter, tcs_vec>>
    /\ UNCHANGED <<reader_count, writer_waiting, reader_queue, writer_queue, event, dangling>>

WriteUnlockCS(t) ==
    /\ pc[t] = "write_unlock_locked"
    /\ lock = t
    /\ IF owner # t
       THEN /\ Leave(t, "write_unlock", EPERM)
            /\ UNCHANGED <<owner, waiter, tcs_vec>>
       ELSE /\ owner' = SGX_THREAD_T_NULL
            /\ IF reader_queue # <<>>
               THEN /\ tcs_vec' = [tcs_vec EXCEPT ![t] = reader_queue]
                    /\ Unlock(t, "write_unlock_wake")
                    /\ UNCHANGED waiter
               ELSE IF Front(writer_queue) # SGX_THREAD_T_NULL
               THEN /\ waiter' = [waiter EXCEPT ![t] = Front(writer_queue)]
                    /\ Unlock(t, "write_unlock_wake")
                    /\ UNCHANGED tcs_vec
               ELSE /\ Leave(t, "write_unlock", Ok)
                    /\ UNCHANGED <<waiter, tcs_vec>>
    /\ UNCHANGED <<reader_count, writer_waiting, reader_queue, writer_queue, event, dangling>>

WriteUnlockWake(t) ==
    /\ pc[t] = "write_unlock_wake"
    /\ IF tcs_vec[t] # <<>>
       THEN /\ event' = SetEvents(Range(tcs_vec[t]))
            /\ tcs_vec' = [tcs_vec EXCEPT ![t] = <<>>]
            /\ pc' = [pc EXCEPT ![t] = "idle"]
            /\ ret' = Return("write_unlock", Ok)
            /\ UNCHANGED <<waiter, dangling>>
       ELSE /\ WakeOne(t, "write_unlock")
            /\ UNCHANGED tcs_vec
    /\ UNCHANGED <<state, lock>>

----------------------------------------------------------------------------
\* unlock

\* Faulty variant of UnlockCall: `self.owner != SGX_THREAD_T_NULL` for the comparison of
\* owner with the caller.
UnlockCall_AnyOwner(t) ==
    /\ life = "Live"
    /\ pc[t] = "idle"
    /\ pc' = [pc EXCEPT ![t] = IF owner # SGX_THREAD_T_NULL THEN "write_unlock_enter"
                                                             ELSE "read_unlock_enter"]
    /\ ret' = NoReturn
    /\ UNCHANGED <<state, lock, event, waiter, tcs_vec, dangling>>

\* `if self.owner == rsgx_thread_self()`, evaluated before any spin lock is taken.
UnlockCall(t) ==
    /\ life = "Live"
    /\ pc[t] = "idle"
    /\ pc' = [pc EXCEPT ![t] = IF owner = t THEN "write_unlock_enter" ELSE "read_unlock_enter"]
    /\ ret' = NoReturn
    /\ UNCHANGED <<state, lock, event, waiter, tcs_vec, dangling>>

\* self.lock.lock() of the write_unlock that unlock dispatched to.
UnlockWriteEnter(t) ==
    /\ pc[t] = "write_unlock_enter"
    /\ lock = SGX_THREAD_T_NULL
    /\ lock' = t
    /\ pc' = [pc EXCEPT ![t] = "write_unlock_locked"]
    /\ ret' = NoReturn
    /\ UNCHANGED <<state, event, waiter, tcs_vec, dangling>>

\* self.lock.lock() of the read_unlock that unlock dispatched to.
UnlockReadEnter(t) ==
    /\ pc[t] = "read_unlock_enter"
    /\ lock = SGX_THREAD_T_NULL
    /\ lock' = t
    /\ pc' = [pc EXCEPT ![t] = "read_unlock_locked"]
    /\ ret' = NoReturn
    /\ UNCHANGED <<state, event, waiter, tcs_vec, dangling>>

----------------------------------------------------------------------------
\* destroy

DestroyCall(t) ==
    /\ Enter(t, "destroy_locked")

DestroyCS(t) ==
    /\ pc[t] = "destroy_locked"
    /\ lock = t
    /\ Leave(t, "destroy", IF IsLocked THEN EBUSY ELSE Ok)
    /\ UNCHANGED <<state, event, waiter, tcs_vec, dangling>>

----------------------------------------------------------------------------
\* Lifecycle: impl LazyInit for RwLock, impl Drop for RwLock

\* Faulty variant of LazyInitDestroy: the box is dropped without asking is_locked.
LazyInitDestroy_AlwaysDropping ==
    /\ life = "Live"
    /\ \A t \in Threads : pc[t] = "idle"
    /\ lock = SGX_THREAD_T_NULL
    /\ life' = "Dropping"
    /\ ret' = NoReturn
    /\ UNCHANGED <<state, lock, pc, event, waiter, tcs_vec, dangling>>

\* LazyInit::destroy(rwlock: Box<Self>). It is given the box by value: no thread is inside
\* an operation of the lock or can start one. is_locked takes and releases the spin lock;
\* a locked lock is leaked with mem::forget, any other is dropped at the end of the scope.
LazyInitDestroy ==
    /\ life = "Live"
    /\ \A t \in Threads : pc[t] = "idle"
    /\ lock = SGX_THREAD_T_NULL
    /\ life' = (IF IsLocked THEN "Leaked" ELSE "Dropping")
    /\ ret' = NoReturn
    /\ UNCHANGED <<state, lock, pc, event, waiter, tcs_vec, dangling>>

\* Drop::drop: `let r = self.destroy(); debug_assert_eq!(r, Ok(()))`.
Drop ==
    /\ life = "Dropping"
    /\ lock = SGX_THREAD_T_NULL
    /\ ret' = Return("drop", IF IsLocked THEN EBUSY ELSE Ok)
    /\ life' = (IF IsLocked THEN "AssertFailed" ELSE "Destroyed")
    /\ UNCHANGED <<state, lock, pc, event, waiter, tcs_vec, dangling>>

----------------------------------------------------------------------------

\* History variables: they record what has happened and no action of the lock reads them.

\* A thread has become owner / the owner has released in this step.
AcquiredExclusive == owner = SGX_THREAD_T_NULL /\ owner' # SGX_THREAD_T_NULL
ReleasedExclusive == owner # SGX_THREAD_T_NULL /\ owner' = SGX_THREAD_T_NULL

OwedNext ==
    IF ReleasedExclusive
    THEN IF reader_queue # <<>> /\ writer_queue = <<>> THEN Range(reader_queue) ELSE {}
    ELSE IF AcquiredExclusive THEN {}
    ELSE owed \cap Range(reader_queue')

\* The thread that takes the step.
Actor == CHOOSE t \in Threads : pc'[t] # pc[t]

\* A step that neither returns from a call, nor changes the lock state, nor starts an unlock.
QuietStep ==
    /\ ret' = NoReturn
    /\ state' = state
    /\ \A u \in Threads : pc'[u] \notin {"write_unlock_enter", "read_unlock_enter"}

\* A step of a successful read_unlock.
SharedReleaseStep ==
    /\ owner' = owner /\ reader_queue' = reader_queue /\ writer_queue' = writer_queue
    /\ \/ reader_count' = reader_count - 1
       \/ ret' = Return("read_unlock", Ok) /\ reader_count' = reader_count

\* fifo is <<H>> once thread H has acquired the only shared hold of an otherwise unused
\* lock with every thread idle, <<H, W1>> and then <<H, W1, W2>> once W1 and then W2 have
\* called write and been queued, and stays so while H releases with read_unlock; any other
\* call that returns, changes the lock state or starts an unlock ends the run.
FifoNext ==
    IF /\ ret' = Return("read", Ok)
       /\ reader_count' = 1 /\ owner' = SGX_THREAD_T_NULL
       /\ reader_queue' = <<>> /\ writer_queue' = <<>>
       /\ \A u \in Threads : pc'[u] = "idle"
    THEN <<Actor>>
    ELSE IF fifo = <<>> \/ owner' # owner THEN <<>>
    ELSE IF Len(writer_queue') = Len(writer_queue) + 1
    THEN IF Len(fifo) \in {1, 2} /\ Actor # fifo[1] THEN Append(fifo, Actor) ELSE <<>>
    ELSE IF QuietStep THEN fifo
    ELSE IF Len(fifo) = 3 /\ SharedReleaseStep /\ Actor = fifo[1] THEN fifo
    ELSE <<>>

RcallsNext ==
    IF owner' # SGX_THREAD_T_NULL THEN -1
    ELSE IF ret' = Return("read", Ok) THEN (IF rcalls = -1 THEN -1 ELSE rcalls + 1)
    ELSE IF reader_count' = 0 THEN 0
    ELSE IF reader_count' # reader_count THEN -1
    ELSE rcalls

History ==
    /\ owed' = OwedNext
    /\ fifo' = FifoNext
    /\ rcalls' = RcallsNext

\* A step of an operation of the lock, recorded in the history variables.
Step(action) == action /\ History /\ UNCHANGED <<hold, budget, life>>

\* A step of the teardown of the lock.
TeardownStep(action) == action /\ History /\ UNCHANGED <<hold, budget>>

Next ==
    \E t \in Threads :
        \/ Step(ReadCall(t)) \/ Step(ReadCS(t)) \/ Step(ReadWake(t)) \/ Step(ReadRecheck(t))
        \/ Step(TryReadCall(t)) \/ Step(TryReadCS(t))
        \/ Step(WriteCall(t)) \/ Step(WriteCS(t)) \/ Step(WriteWake(t)) \/ Step(WriteRecheck(t))
        \/ Step(TryWriteCall(t)) \/ Step(TryWriteCS(t))
        \/ Step(ReadUnlockCall(t)) \/ Step(ReadUnlockCS(t)) \/ Step(ReadUnlockWake(t))
        \/ Step(WriteUnlockCall(t)) \/ Step(WriteUnlockCS(t)) \/ Step(WriteUnlockWake(t))
        \/ Step(UnlockCall(t)) \/ Step(UnlockWriteEnter(t)) \/ Step(UnlockReadEnter(t))
        \/ Step(DestroyCall(t)) \/ Step(DestroyCS(t))
        \/ TeardownStep(LazyInitDestroy) \/ TeardownStep(Drop)

Spec == Init /\ [][Next]_vars

TypeOK ==
    /\ reader_count \in 0..MaxReaderCount
    /\ writer_waiting \in Nat
    /\ lock \in Threads \cup {SGX_THREAD_T_NULL}
    /\ owner \in Threads \cup {SGX_THREAD_T_NULL}
    /\ reader_queue \in Seq(Threads)
    /\ writer_queue \in Seq(Threads)
    /\ event \in [Threads -> BOOLEAN]
    /\ waiter \in [Threads -> Threads \cup {SGX_THREAD_T_NULL}]
    /\ dangling \in [Threads -> BOOLEAN]
    /\ life \in {"Live", "Leaked", "Dropping", "Destroyed", "AssertFailed"}
    /\ hold \in [Threads -> {"none", "read", "write"}]
    /\ budget \in [Threads -> 0..MaxCalls]

----------------------------------------------------------------------------
\* The lock used by well-behaved clients under fair scheduling: a thread calls an acquire
\* operation only while it holds nothing, at most MaxCalls times, and releases what it has
\* acquired with the matching unlock (or the generic unlock), which it eventually calls.

AcquireLabels == {"read_locked", "try_read_locked", "write_locked", "try_write_locked"}
ReleaseLabels == {"read_unlock_locked", "write_unlock_locked",
                  "read_unlock_enter", "write_unlock_enter"}

\* What thread t holds and how many acquire calls it has left after its step.
ClientNext(t) ==
    /\ hold' = [hold EXCEPT ![t] =
                  IF ret' \in {Return("read", Ok), Return("try_read", Ok)} THEN "read"
                  ELSE IF ret' \in {Return("write", Ok), Return("try_write", Ok)} THEN "write"
                  ELSE IF pc[t] = "idle" /\ pc'[t] \in ReleaseLabels THEN "none"
                  ELSE @]
    /\ budget' = [budget EXCEPT ![t] =
                    IF pc[t] = "idle" /\ pc'[t] \in AcquireLabels THEN @ - 1 ELSE @]

\* A step of thread t as a client.
ClientStep(t, action) == action /\ ClientNext(t) /\ History /\ UNCHANGED life

\* Thread t calls an acquire operation.
Acquire(t) ==
    /\ hold[t] = "none"
    /\ budget[t] > 0
    /\ \/ ClientStep(t, ReadCall(t)) \/ ClientStep(t, TryReadCall(t))
       \/ ClientStep(t, WriteCall(t)) \/ ClientStep(t, TryWriteCall(t))

\* Thread t calls the unlock that matches what it holds.
Release(t) ==
    \/ hold[t] = "read" /\ ClientStep(t, ReadUnlockCall(t))
    \/ hold[t] = "write" /\ ClientStep(t, WriteUnlockCall(t))
    \/ hold[t] # "none" /\ ClientStep(t, UnlockCall(t))

\* Thread t goes on in the operation it is in.
Proceed(t) ==
    \/ ClientStep(t, ReadCS(t)) \/ ClientStep(t, ReadWake(t)) \/ ClientStep(t, ReadRecheck(t))
    \/ ClientStep(t, TryReadCS(t))
    \/ ClientStep(t, WriteCS(t)) \/ ClientStep(t, WriteWake(t))
    \/ ClientStep(t, WriteRecheck(t))
    \/ ClientStep(t, TryWriteCS(t))
    \/ ClientStep(t, ReadUnlockCS(t)) \/ ClientStep(t, ReadUnlockWake(t))
    \/ ClientStep(t, WriteUnlockCS(t)) \/ ClientStep(t, WriteUnlockWake(t))
    \/ ClientStep(t, UnlockWriteEnter(t)) \/ ClientStep(t, UnlockReadEnter(t))

LiveNext == \E t \in Threads : Acquire(t) \/ Release(t) \/ Proceed(t)

\* Fair scheduling: a thread that can go on in its operation, or that holds the lock and
\* can call its unlock, eventually does.
Fairness == \A t \in Threads : WF_vars(Release(t) \/ Proceed(t))

LiveSpec == Init /\ [][LiveNext]_vars /\ Fairness

----------------------------------------------------------------------------
\* Properties of the lock.

\* Thread t takes a step.
Stepped(t) == pc'[t] # pc[t]

\* No holder, no waiter: the state in which the lock may be torn down.
Quiescent ==
    /\ owner = SGX_THREAD_T_NULL
    /\ reader_count = 0
    /\ reader_queue = <<>>
    /\ writer_queue = <<>>

\* C1. Mutual exclusion: never is owner a real thread while reader_count > 0, and owner
\* passes from one thread to another only through the sentinel: a thread becomes owner
\* only when there is none, in a step of its own, and owner is cleared only by a step of
\* the owner itself, so at most one thread holds exclusive access at a time.
C1_MutualExclusion ==
    /\ [](owner # SGX_THREAD_T_NULL => reader_count = 0)
    /\ [][owner' # owner =>
            \/ owner = SGX_THREAD_T_NULL /\ owner' = lock
            \/ owner' = SGX_THREAD_T_NULL /\ owner = lock]_vars

\* C1 witness: exclusive access is held while a reader and a writer wait for it.
C1_Witness ==
    owner # SGX_THREAD_T_NULL /\ reader_queue # <<>> /\ writer_queue # <<>>

\* C2. Reader broadcast on exclusive release: after a write_unlock that found
\* K >= 1 readers and no writer queued, no thread obtains owner before all K readers have
\* acquired shared access.
C2_ReadersBeforeWriters ==
    [][AcquiredExclusive => owed = {}]_vars

\* What the broadcast does give. After such a write_unlock every one of the K readers is
\* woken, and as long as no writer has obtained owner it is eligible: owner is the sentinel
\* and the reader is about to be woken by the releasing thread, or its wake is pending, or
\* it is re-checking; and its re-check then acquires shared access.
BroadcastEligible ==
    /\ [](\A r \in owed :
            /\ owner = SGX_THREAD_T_NULL
            /\ \/ event[r]
               \/ pc[r] = "read_recheck"
               \/ \E t \in Threads : pc[t] = "write_unlock_wake" /\ r \in Range(tcs_vec[t]))
    /\ [][\A r \in owed :
            pc[r] = "read_recheck" /\ Stepped(r) =>
                /\ ret' = Return("read", Ok)
                /\ reader_count' = reader_count + 1
                /\ r \notin Range(reader_queue')]_vars

\* Two readers were queued at the release and both have their wake pending.
BroadcastEligible_Witness ==
    /\ Cardinality(owed) = 2
    /\ \A r \in owed : event[r] /\ pc[r] = "read_park"

\* C3, as claimed. Writer FIFO on release: with a shared holder present, W1 and then W2
\* have called write and been queued, and then the holder has released, no other thread
\* requesting the lock; W2 does not become owner while W1 is queued in front of it.
C3_WriterFifo ==
    [][Len(fifo) = 3 => owner' # fifo[3]]_vars

\* A step of thread t that reads or writes owner, reader_count or a queue: a critical
\* section, the comparison `self.owner == rsgx_thread_self()` of unlock, or the `*td` of a
\* single wake, which reads the front node of writer_queue.
AccessesLockState(t) ==
    \/ /\ pc[t] \in {"read_locked", "read_recheck", "try_read_locked", "write_locked",
                     "write_recheck", "try_write_locked", "read_unlock_locked",
                     "write_unlock_locked", "destroy_locked"}
       /\ Stepped(t)
    \/ pc[t] = "idle" /\ pc'[t] \in {"write_unlock_enter", "read_unlock_enter"}
    \/ /\ pc[t] \in {"read_unlock_wake", "write_unlock_wake"}
       /\ tcs_vec[t] = <<>>
       /\ Stepped(t)

\* C4, as claimed. Every read and write of the lock state is made by a thread that holds
\* the spin lock.
C4_AccessUnderLock ==
    [][\A t \in Threads : AccessesLockState(t) => lock = t]_vars

\* C5. Self-deadlock detection: read or write called by the owner returns EDEADLK in its
\* first critical section, with the state and the events unchanged, the caller in no
\* queue and not parked, and the spin lock released.
C5_SelfDeadlock ==
    [][\A t \in Threads :
        pc[t] \in {"read_locked", "write_locked"} /\ owner = t /\ Stepped(t) =>
            /\ ret' = Return(IF pc[t] = "read_locked" THEN "read" ELSE "write", EDEADLK)
            /\ state' = state
            /\ event' = event
            /\ pc'[t] = "idle"
            /\ lock' = SGX_THREAD_T_NULL]_vars

\* C5 witness: the owner has called read and got EDEADLK.
C5_Witness ==
    ret = Return("read", EDEADLK) /\ owner # SGX_THREAD_T_NULL /\ lock = SGX_THREAD_T_NULL

\* C6. Unlock mismatch: write_unlock by a thread that is not owner, and read_unlock when
\* reader_count is 0, return EPERM with the state unchanged and no wake issued.
C6_UnlockMismatch ==
    [][\A t \in Threads :
        /\ pc[t] = "write_unlock_locked" /\ owner # t /\ Stepped(t) =>
              /\ ret' = Return("write_unlock", EPERM)
              /\ state' = state /\ event' = event
              /\ pc'[t] = "idle" /\ lock' = SGX_THREAD_T_NULL
        /\ pc[t] = "read_unlock_locked" /\ reader_count = 0 /\ Stepped(t) =>
              /\ ret' = Return("read_unlock", EPERM)
              /\ state' = state /\ event' = event
              /\ pc'[t] = "idle" /\ lock' = SGX_THREAD_T_NULL]_vars

\* C6 witness: a thread that is not the owner has called write_unlock on a held lock.
C6_Witness ==
    ret = Return("write_unlock", EPERM) /\ owner # SGX_THREAD_T_NULL

\* C7. Reader-preferring admission: read or try_read that finds owner the sentinel
\* succeeds in its first critical section, incrementing reader_count, appending nothing to
\* a queue and not parking, whatever writer_queue holds.
C7_ReaderPreferring ==
    [][\A t \in Threads :
        /\ pc[t] \in {"read_locked", "try_read_locked"}
        /\ owner = SGX_THREAD_T_NULL
        /\ Stepped(t)
        => /\ ret' = Return(IF pc[t] = "read_locked" THEN "read" ELSE "try_read", Ok)
           /\ reader_count' = reader_count + 1
           /\ reader_queue' = reader_queue /\ writer_queue' = writer_queue
           /\ owner' = owner
           /\ pc'[t] = "idle"]_vars

\* C7 witness: a read has succeeded while a writer is queued and no reader is.
C7_Witness ==
    ret = Return("read", Ok) /\ writer_queue # <<>> /\ reader_queue = <<>>

\* C8. Unbounded shared readers: as long as only read calls have changed who holds the
\* lock since it was last free, every one of them has succeeded and reader_count is their
\* number.
C8_SharedReaders ==
    rcalls >= 0 =>
        /\ reader_count = rcalls
        /\ owner = SGX_THREAD_T_NULL
        /\ (ret.op = "read" => ret.res = Ok)

\* C8 witness: MaxReaderCount read calls in a row have succeeded.
C8_Witness ==
    rcalls = MaxReaderCount /\ ret = Return("read", Ok)

\* C9. Non-blocking acquisition: try_read succeeds iff owner is the sentinel, try_write iff
\* owner is the sentinel and reader_count is 0; either returns in its only critical
\* section, in no queue and not parked, and Busy leaves the lock state unchanged.
C9_TryAcquire ==
    [][\A t \in Threads :
        /\ pc[t] = "try_read_locked" /\ Stepped(t) =>
              /\ pc'[t] = "idle" /\ lock' = SGX_THREAD_T_NULL /\ event' = event
              /\ IF owner = SGX_THREAD_T_NULL
                 THEN /\ ret' = Return("try_read", Ok)
                      /\ reader_count' = reader_count + 1
                      /\ UNCHANGED <<writer_waiting, owner, reader_queue, writer_queue>>
                 ELSE /\ ret' = Return("try_read", EBUSY)
                      /\ state' = state
        /\ pc[t] = "try_write_locked" /\ Stepped(t) =>
              /\ pc'[t] = "idle" /\ lock' = SGX_THREAD_T_NULL /\ event' = event
              /\ IF owner = SGX_THREAD_T_NULL /\ reader_count = 0
                 THEN /\ ret' = Return("try_write", Ok)
                      /\ owner' = t
                      /\ UNCHANGED <<reader_count, writer_waiting, reader_queue, writer_queue>>
                 ELSE /\ ret' = Return("try_write", EBUSY)
                      /\ state' = state]_vars

\* C9 witness: try_write has found the lock held by readers and returned Busy.
C9_Witness ==
    ret = Return("try_write", EBUSY) /\ owner = SGX_THREAD_T_NULL /\ reader_count > 0

\* C10. Teardown safety: destroy returns success iff the lock is quiescent and Busy
\* otherwise, and changes nothing: the state, the events and every other thread are as
\* they were before the call, so whatever follows is as if destroy had not been called.
C10_Destroy ==
    [][\A t \in Threads :
        pc[t] = "destroy_locked" /\ Stepped(t) =>
            /\ ret' = Return("destroy", IF Quiescent THEN Ok ELSE EBUSY)
            /\ state' = state
            /\ event' = event
            /\ pc' = [pc EXCEPT ![t] = "idle"]
            /\ lock' = SGX_THREAD_T_NULL
            /\ UNCHANGED <<waiter, tcs_vec, dangling>>]_vars

\* C10 witness: destroy has returned Busy on a lock whose only sign of use is a queued
\* reader, which stays queued.
C10_Witness ==
    /\ ret = Return("destroy", EBUSY)
    /\ owner = SGX_THREAD_T_NULL /\ reader_count = 0
    /\ reader_queue # <<>> /\ writer_queue = <<>>

\* C11. The spin lock is released before parking and before returning: no thread holds it
\* while it is parked in thread_wait_event, and none holds it once its operation has
\* returned, with success or with an error; a thread holds it only inside a critical
\* section.
C11_ReleasedBeforePark ==
    \A t \in Threads :
        /\ pc[t] \in {"read_park", "write_park"} => lock # t
        /\ pc[t] = "idle" => lock # t
        /\ lock = t => pc[t] \in {"read_locked", "read_recheck", "try_read_locked",
                                  "write_locked", "write_recheck", "try_write_locked",
                                  "read_unlock_locked", "write_unlock_locked",
                                  "destroy_locked"}

\* C11 witness: a reader and a writer are parked, the call that just returned got an error,
\* and the spin lock is free.
C11_Witness ==
    /\ \E t \in Threads : pc[t] = "read_park"
    /\ \E t \in Threads : pc[t] = "write_park"
    /\ ret.res \in {EDEADLK, EBUSY, EPERM}
    /\ lock = SGX_THREAD_T_NULL

\* The step of thread t sets the event of exactly the threads in `targets`.
WakesExactly(targets) == event' = SetEvents(targets)

\* C12. Exclusive-release wake policy: a successful write_unlock clears owner and wakes
\* every thread that is in reader_queue if there is one, and no writer; otherwise the head
\* of writer_queue alone; otherwise nobody. The wake is issued once the spin lock has been
\* released, to the threads selected under it. No queue and no reader_count changes.
C12_ExclusiveReleasePolicy ==
    [][\A t \in Threads :
        /\ pc[t] = "write_unlock_locked" /\ owner = t /\ Stepped(t) =>
              /\ owner' = SGX_THREAD_T_NULL
              /\ UNCHANGED <<reader_count, reader_queue, writer_queue, event>>
              /\ IF reader_queue # <<>>
                 THEN pc'[t] = "write_unlock_wake" /\ tcs_vec'[t] = reader_queue
                 ELSE IF writer_queue # <<>>
                 THEN /\ pc'[t] = "write_unlock_wake" /\ tcs_vec'[t] = <<>>
                      /\ waiter'[t] = Head(writer_queue)
                 ELSE pc'[t] = "idle" /\ ret' = Return("write_unlock", Ok)
        /\ pc[t] = "write_unlock_wake" /\ Stepped(t) =>
              /\ WakesExactly(IF tcs_vec[t] # <<>> THEN Range(tcs_vec[t]) ELSE {waiter[t]})
              /\ state' = state
              /\ pc'[t] = "idle" /\ ret' = Return("write_unlock", Ok)]_vars

\* C13. Shared-release wake policy: a successful read_unlock decrements reader_count by
\* one; if the result is 0 it wakes the head of writer_queue alone (nobody if there is
\* none) and never a reader, if it is positive it wakes nobody. The wake is issued once the
\* spin lock has been released, to the thread selected under it. No queue changes and
\* owner does not change.
C13_SharedReleasePolicy ==
    [][\A t \in Threads :
        /\ pc[t] = "read_unlock_locked" /\ reader_count > 0 /\ Stepped(t) =>
              /\ reader_count' = reader_count - 1
              /\ UNCHANGED <<owner, reader_queue, writer_queue, event>>
              /\ IF reader_count' = 0 /\ writer_queue # <<>>
                 THEN pc'[t] = "read_unlock_wake" /\ waiter'[t] = Head(writer_queue)
                 ELSE pc'[t] = "idle" /\ ret' = Return("read_unlock", Ok)
        /\ pc[t] = "read_unlock_wake" /\ Stepped(t) =>
              /\ WakesExactly({waiter[t]})
              /\ state' = state
              /\ pc'[t] = "idle" /\ ret' = Return("read_unlock", Ok)]_vars

\* C14. Wake-and-revalidate: the return from thread_wait_event changes nothing of the lock
\* state; the re-check under the spin lock that follows lets a reader acquire (count it,
\* take it out of reader_queue, return Ok) only if owner is the sentinel, and a writer
\* (make it owner, take it out of writer_queue, return Ok) only if owner is the sentinel
\* and reader_count is 0; otherwise the thread parks again, still queued, with the state
\* unchanged.
C14_WakeAndRevalidate ==
    [][\A t \in Threads :
        /\ pc[t] \in {"read_park", "write_park"} /\ Stepped(t) =>
              /\ state' = state
              /\ pc'[t] = (IF pc[t] = "read_park" THEN "read_recheck" ELSE "write_recheck")
              /\ ret' = NoReturn
        /\ pc[t] = "read_recheck" /\ Stepped(t) =>
              IF owner = SGX_THREAD_T_NULL
              THEN /\ reader_count' = reader_count + 1
                   /\ t \notin Range(reader_queue')
                   /\ UNCHANGED <<owner, writer_queue>>
                   /\ pc'[t] = "idle" /\ ret' = Return("read", Ok)
              ELSE /\ state' = state
                   /\ t \in Range(reader_queue)
                   /\ pc'[t] = "read_park" /\ ret' = NoReturn
        /\ pc[t] = "write_recheck" /\ Stepped(t) =>
              IF owner = SGX_THREAD_T_NULL /\ reader_count = 0
              THEN /\ owner' = t
                   /\ t \notin Range(writer_queue')
                   /\ UNCHANGED <<reader_count, reader_queue>>
                   /\ pc'[t] = "idle" /\ ret' = Return("write", Ok)
              ELSE /\ state' = state
                   /\ t \in Range(writer_queue)
                   /\ pc'[t] = "write_park" /\ ret' = NoReturn]_vars

\* C14 witness: a reader has been woken and re-checks while a writer is owner, with another
\* wake already pending for a parked writer.
C14_Witness ==
    \E r, w \in Threads :
        /\ pc[r] = "read_recheck" /\ owner \notin {SGX_THREAD_T_NULL, r}
        /\ pc[w] = "write_park" /\ event[w]

\* The number of times t occurs in queue q.
Occurrences(q, t) == Cardinality({i \in 1..Len(q) : q[i] = t})

\* C15. Queue membership: a handle occurs at most once in reader_queue and writer_queue
\* together; it is in reader_queue only while its thread is inside the waiting loop of
\* read and in writer_queue only while its thread is inside that of write, parked whenever
\* the spin lock is free; a thread that has returned from its call is in neither queue.
C15_QueueMembership ==
    \A t \in Threads :
        /\ Occurrences(reader_queue, t) + Occurrences(writer_queue, t) <= 1
        /\ t \in Range(reader_queue) => pc[t] \in {"read_park", "read_recheck"}
        /\ t \in Range(writer_queue) => pc[t] \in {"write_park", "write_recheck"}
        /\ lock = SGX_THREAD_T_NULL /\ t \in Range(reader_queue) => pc[t] = "read_park"
        /\ lock = SGX_THREAD_T_NULL /\ t \in Range(writer_queue) => pc[t] = "write_park"
        /\ pc[t] = "idle" => t \notin Range(reader_queue) \cup Range(writer_queue)

\* C15 witness: a thread has returned from write as owner while a reader and a writer are
\* queued and parked, the spin lock being free.
C15_Witness ==
    /\ ret = Return("write", Ok)
    /\ lock = SGX_THREAD_T_NULL
    /\ owner # SGX_THREAD_T_NULL /\ pc[owner] = "idle"
    /\ reader_queue # <<>> /\ writer_queue # <<>>

\* C16. Generic release dispatch: from the comparison of owner with the caller, made
\* without the spin lock, until the operation dispatched to has taken the spin lock, the
\* outcome of the comparison stays what it was (write_unlock is entered by the owner only,
\* read_unlock by a thread that is not owner), whatever other threads do in between; the
\* operation dispatched to then starts in the state and at the place where a direct call
\* of it starts, so that unlock has the effect and the result of that call.
C16_UnlockDispatch ==
    /\ [](\A t \in Threads :
            /\ pc[t] = "write_unlock_enter" => owner = t
            /\ pc[t] = "read_unlock_enter" => owner # t)
    /\ [][\A t \in Threads :
            /\ pc[t] = "idle" /\ pc'[t] \in {"write_unlock_enter", "read_unlock_enter"} =>
                  /\ pc'[t] = "write_unlock_enter" <=> owner = t
                  /\ UNCHANGED <<state, lock, event>>
            /\ pc[t] \in {"write_unlock_enter", "read_unlock_enter"} /\ Stepped(t) =>
                  /\ lock = SGX_THREAD_T_NULL /\ lock' = t
                  /\ pc'[t] = (IF owner = t THEN "write_unlock_locked"
                                            ELSE "read_unlock_locked")
                  /\ UNCHANGED <<state, event>>]_vars

\* C16 witness: between the comparison made by a thread that calls unlock and its taking
\* the spin lock, another thread has become owner.
C16_Witness ==
    /\ \E t \in Threads : pc[t] = "read_unlock_enter"
    /\ ret \in {Return("write", Ok), Return("try_write", Ok)}
    /\ owner # SGX_THREAD_T_NULL

\* C18. Liveness probe: is_locked is true iff owner is not the sentinel, or reader_count
\* is positive, or one of the queues is not empty; writer_waiting, which it also tests, is
\* 0 in every reachable state and no step changes it.
C18_IsLocked ==
    /\ [](writer_waiting = 0 /\ (IsLocked <=> ~Quiescent))
    /\ [][writer_waiting' = writer_waiting]_vars

\* C18 witness: is_locked, called by destroy, has answered true on a lock with no holder
\* and no queued reader, on account of a queued writer.
C18_Witness ==
    /\ ret = Return("destroy", EBUSY)
    /\ owner = SGX_THREAD_T_NULL /\ reader_count = 0
    /\ reader_queue = <<>> /\ writer_queue # <<>>

\* C20. Wake target validity: when read_unlock or write_unlock issues its single wake,
\* the thread selected under the spin lock is still in writer_queue, and is its head, and
\* the wake goes to it.
C20_WakeTargetValid ==
    [][\A t \in Threads :
        /\ pc[t] \in {"read_unlock_wake", "write_unlock_wake"}
        /\ tcs_vec[t] = <<>>
        /\ Stepped(t)
        => /\ writer_queue # <<>>
           /\ Head(writer_queue) = waiter[t]
           /\ WakesExactly({waiter[t]})]_vars

\* C17. Lifecycle teardown: LazyInit::destroy leaks the lock, which is then never dropped,
\* iff is_locked is true, that is iff the lock is not quiescent, and leaves its state as it
\* is; otherwise it drops it, and the destroy that Drop::drop calls returns Ok, so that the
\* debug assertion holds and the lock ends Destroyed.
C17_Teardown ==
    /\ [](life # "AssertFailed")
    /\ [][/\ life = "Live" /\ life' # "Live" =>
                /\ life' = (IF Quiescent THEN "Dropping" ELSE "Leaked")
                /\ state' = state
          /\ life = "Dropping" /\ life' # "Dropping" =>
                /\ life' = "Destroyed"
                /\ ret' = Return("drop", Ok)
                /\ state' = state
          /\ life \in {"Leaked", "Destroyed"} => life' = life]_vars

\* C17 witness: a lock that has been used (a thread has acquired shared access and
\* released it with unlock, leaving a wake pending) has been torn down and dropped.
C17_Witness ==
    /\ life = "Destroyed"
    /\ ret = Return("drop", Ok)
    /\ \E t \in Threads : event[t]

\* The lock is free and threads are queued, all parked with no wake pending, while no
\* operation is in progress: nothing will ever wake them.
LostWakeup ==
    /\ owner = SGX_THREAD_T_NULL /\ reader_count = 0
    /\ reader_queue # <<>> \/ writer_queue # <<>>
    /\ \A t \in Threads :
          IF t \in Range(reader_queue) \cup Range(writer_queue)
          THEN pc[t] \in {"read_park", "write_park"} /\ ~event[t]
          ELSE pc[t] = "idle"

\* C19. No lost wake-up: with well-behaved clients and fair scheduling no state with a
\* lost wake-up is reached, every thread blocked in read or write eventually acquires,
\* and both queues are eventually empty for good.
C19_NoLostWakeup ==
    /\ []~LostWakeup
    /\ \A t \in Threads : (pc[t] = "read_park") ~> (hold[t] = "read")
    /\ \A t \in Threads : (pc[t] = "write_park") ~> (hold[t] = "write")
    /\ <>[](reader_queue = <<>> /\ writer_queue = <<>>)

\* C19 witness: a writer is owner while a reader and another writer are queued and parked
\* with no wake pending.
C19_Witness ==
    \E r, w \in Threads :
        /\ owner \notin {SGX_THREAD_T_NULL, r, w} /\ hold[owner] = "write"
        /\ pc[r] = "read_park" /\ ~event[r]
        /\ pc[w] = "write_park" /\ ~event[w]

====
